---- MODULE Spec2Model ----
(***************************************************************************)
(* Expense tracker: the Entry Store kept by ExpenseTracker (remote-API     *)
(* variant and local-storage variant) and the recurring-transaction        *)
(* scheduler of RecurringTransactions.                                     *)
(*                                                                         *)
(* Calendar dates at rest are the 'yyyy-MM-dd' strings of the code, held   *)
(* as the integer yyyymmdd (string order = integer order).  A JavaScript   *)
(* Date is the record [y, m, d, t]: local calendar day plus time of day,   *)
(* t = 0 being exactly midnight and t = 1 any later instant of the day;    *)
(* the clock keeps the day, each handler reads it at either time of day.   *)
(* JavaScript null / '' / undefined of a date or id field is 0 (falsy);    *)
(* a nullable object is a sequence of length at most one.                  *)
(***************************************************************************)
EXTENDS Integers, Sequences, FiniteSets, Bags, TLC

VARIABLES
    now,                   \* the wall clock: the calendar day it shows
    ms,                    \* the last reading of Date.now() (milliseconds)
    backend,               \* "api": ExpenseTracker.js, "local": the local-storage ExpenseTracker
    transactions,          \* ExpenseTracker state: the in-memory Transaction list
    editingTransaction,    \* ExpenseTracker state: <<>> or <<Transaction being edited>>
    showTransactionForm,   \* ExpenseTracker state: the TransactionForm modal is shown
    activeTab,             \* ExpenseTracker state: RecurringTransactions is mounted iff "recurring"
    inflight,              \* the bag of transactionAPI requests awaiting their response
    srvId,                 \* the last id the remote collaborator assigned
    recurringTransactions, \* RecurringTransactions state: the template list
    recEditing,            \* RecurringTransactions state: <<>> or <<template being edited>>
    stored,                \* localStorage['recurringTransactions']
    effect,                \* the scheduler effect: "idle", or what scheduled its next run
    onAddCalls,            \* the arguments of the onAddTransaction calls of the last step
    alerted,               \* the alert() the last step showed ("" when none)
    filters,               \* ExpenseTracker state: searchTerm, filterType, filterCategory, dateRange
    dashboardData,         \* ExpenseTracker state (remote-API variant): <<>> or <<summary>>
    intervals,             \* the number of live setInterval timers of the scheduler effect
    otherTab,              \* a second browser tab on the same localStorage: its
                           \* RecurringTransactions state and what its passes emitted
    auth                   \* AuthProvider state (user, isLoading), useBackendStatus
                           \* state (isOnline), the session keys of localStorage and
                           \* the auth requests awaiting their response

vars == <<now, ms, backend, transactions, editingTransaction, showTransactionForm,
          activeTab, inflight, srvId, recurringTransactions, recEditing, stored,
          effect, onAddCalls, alerted, filters, dashboardData, intervals,
          otherTab, auth>>

----------------------------------------------------------------------------
(* Bounds of the model *)

MaxTemplates == 1      \* templates in the list
MaxTx == 2             \* Transactions in the store plus requests in flight
MaxMs == 3             \* readings of Date.now()
MaxView == 3           \* Transactions in the store the filtered view is taken of
MaxUpcoming == 7       \* Templates saved when the Recurring tab is opened
MaxPasses == 4         \* Passes of one chain of scheduler runs that are followed
MaxSaved == 2          \* Templates saved by earlier sessions when the application starts

NoDate == 0
NoId == 0

----------------------------------------------------------------------------
(* date-fns, as the code uses it *)

Year(s) == s \div 10000
Month(s) == (s \div 100) % 100
Day(s) == s % 100

IsLeap(y) == (y % 4 = 0 /\ y % 100 # 0) \/ y % 400 = 0

DaysInMonth(y, m) ==
    IF m = 2 THEN (IF IsLeap(y) THEN 29 ELSE 28)
    ELSE IF m \in {4, 6, 9, 11} THEN 30 ELSE 31

\* parseISO('yyyy-MM-dd'): local midnight of that day
parseISO(s) == [y |-> Year(s), m |-> Month(s), d |-> Day(s), t |-> 0]

\* format(date, 'yyyy-MM-dd')
format(date) == date.y * 10000 + date.m * 100 + date.d

\* the millisecond order of two Dates
Earlier(a, b) ==
    \/ a.y < b.y
    \/ a.y = b.y /\ a.m < b.m
    \/ a.y = b.y /\ a.m = b.m /\ a.d < b.d
    \/ a.y = b.y /\ a.m = b.m /\ a.d = b.d /\ a.t < b.t

isAfter(a, b) == Earlier(b, a)
isBefore(a, b) == Earlier(a, b)

\* addMonths(date, amount), the amount given in quarters of a month (0.25 = 1).
\* The fraction is dropped (toInteger in date-fns 2, Date.setMonth in 3), the
\* day of month is kept unless the target month is shorter.
addMonths(date, quarters) ==
    LET amount == quarters \div 4
        total == date.y * 12 + (date.m - 1) + amount
        y2 == total \div 12
        m2 == (total % 12) + 1
        dim == DaysInMonth(y2, m2)
    IN  IF amount = 0 THEN date
        ELSE IF date.d >= dim
             THEN [y |-> y2, m |-> m2, d |-> dim, t |-> date.t]
             ELSE [y |-> y2, m |-> m2, d |-> date.d, t |-> date.t]

----------------------------------------------------------------------------
(* Inputs of the model *)

ClockDays == {20240101, 20240215}
Outcomes == {"success", "nosuccess", "reject"}
\* and the mutation answered with success, the summary request after it failing
StoreOutcomes == Outcomes \cup {"unrefreshed"}
\* the "reports" tab shows the filtered view only: for the state kept here it
\* is the dashboard tab without its row buttons, and is left out
Tabs == {"dashboard", "recurring"}

\* what the user typed into the recurring form; amount is the text of the
\* number input, <<>> being the empty text
RecurringForm(f, s, a, amount) ==
    [type |-> "expense", description |-> <<"Rent">>, amount |-> amount,
     category |-> "Rent", frequency |-> f, startDate |-> s, endDate |-> NoDate,
     isActive |-> a]

\* the number input takes any amount from its min="0" up: "0" is accepted
RecurringForms ==
    { RecurringForm("weekly", 20240101, TRUE, <<1200>>),
      RecurringForm("monthly", 20240101, FALSE, <<1200>>),
      RecurringForm("monthly", 20240301, TRUE, <<1200>>),
      RecurringForm("quarterly", 20240131, TRUE, <<1200>>),
      RecurringForm("yearly", 20240101, TRUE, <<0>>) }

\* what TransactionForm hands to onSave
FormEntries ==
    { [id |-> NoId, type |-> "expense", amount |-> 50, category |-> "Food",
       description |-> <<"Lunch">>, date |-> 20240101, isRecurring |-> FALSE,
       recurringId |-> NoId],
      [id |-> NoId, type |-> "income", amount |-> 3000, category |-> "Salary",
       description |-> <<"Pay">>, date |-> 20240215, isRecurring |-> FALSE,
       recurringId |-> NoId] }

\* stored Transactions for the filtered view: two of the same day, one of
\* the Sunday before (another month and year), one of the week after, one of
\* another month
ViewEntry(id, type, amount, category, description, date) ==
    [id |-> id, type |-> type, amount |-> amount, category |-> category,
     description |-> description, date |-> date,
     isRecurring |-> description[Len(description)] = "(Auto)",
     recurringId |-> IF description[Len(description)] = "(Auto)" THEN 9 ELSE NoId]

ViewEntries ==
    { ViewEntry(1, "expense", 50, "Food", <<"Lunch">>, 20240101),
      ViewEntry(2, "income", 3000, "Salary", <<"Pay">>, 20231231),
      ViewEntry(3, "expense", 1200, "Rent", <<"Rent", "(Auto)">>, 20240101),
      ViewEntry(4, "income", 50, "Food", <<"Food", "Lunch">>, 20240107),
      ViewEntry(5, "expense", 1200, "Rent", <<"Rent", "(Auto)">>, 20240215) }

ViewDays == {20240101, 20240107}

SearchTerms == {<<>>, <<"FOOD">>, <<"lunch">>, <<"(auto)">>}
FilterTypes == {"all", "income", "expense"}
FilterCategories == {"all", "Food", "Rent"}
DateRanges == {"all", "today", "week", "month", "year"}

----------------------------------------------------------------------------
(* RecurringTransactions: the scheduler's pure parts *)

\* the addMonths amount of a frequency, in quarters of a month
FrequencyQuarters(frequency) ==
    IF frequency = "monthly" THEN 4
    ELSE IF frequency = "weekly" THEN 1
    ELSE IF frequency = "quarterly" THEN 12 ELSE 48

\* const nextDue = recurring.nextDue ? parseISO(nextDue) : parseISO(startDate)
Due(recurring) ==
    IF recurring.nextDue # NoDate THEN parseISO(recurring.nextDue)
    ELSE parseISO(recurring.startDate)

\* IsDue without the same-calendar-day clause
IsDue_AfterOnly(today, nextDue) == isAfter(today, nextDue)

IsDue(today, nextDue) ==
    isAfter(today, nextDue) \/ format(today) = format(nextDue)

\* ShouldEmit without the early return for a paused template
ShouldEmit_IgnoresPaused(recurring, today) == IsDue(today, Due(recurring))

\* ShouldEmit with no emission once endDate is past
ShouldEmit_UntilEndDate(recurring, today) ==
    /\ recurring.isActive /\ IsDue(today, Due(recurring))
    /\ recurring.endDate = NoDate \/ ~isAfter(today, parseISO(recurring.endDate))

ShouldEmit(recurring, today) ==
    recurring.isActive /\ IsDue(today, Due(recurring))

\* the newTransaction of a pass ("Auto") or of processNow ("Manual"); its own
\* id, Date.now() + Math.random(), is replaced by either store and is left out
NewTransaction(recurring, today, suffix) ==
    [id |-> NoId,
     type |-> recurring.type,
     description |-> recurring.description \o <<suffix>>,
     amount |-> recurring.amount,
     category |-> recurring.category,
     date |-> format(today),
     isRecurring |-> TRUE,
     recurringId |-> recurring.id]

Advanced(recurring, today) ==
    [recurring EXCEPT
        !.lastProcessed = format(today),
        !.nextDue = format(addMonths(Due(recurring),
                                     FrequencyQuarters(recurring.frequency)))]

\* updatedTransactions with every template advanced, emitting or not
PassUpdated_AdvancesAll(rts, today) ==
    [i \in DOMAIN rts |-> Advanced(rts[i], today)]

\* updatedTransactions after the forEach
PassUpdated(rts, today) ==
    [i \in DOMAIN rts |->
        IF ShouldEmit(rts[i], today) THEN Advanced(rts[i], today) ELSE rts[i]]

RECURSIVE PassCallsFrom(_, _, _)
PassCallsFrom(rts, today, i) ==
    IF i > Len(rts) THEN <<>>
    ELSE (IF ShouldEmit(rts[i], today)
          THEN <<NewTransaction(rts[i], today, "(Auto)")>> ELSE <<>>)
         \o PassCallsFrom(rts, today, i + 1)

\* the onAddTransaction calls of one pass, in order
PassCalls(rts, today) == PassCallsFrom(rts, today, 1)

\* the template list after k runs of the effect, each run on the list the run
\* before it saved, all at the instant `today`
RECURSIVE PassChain(_, _, _)
PassChain(rts, today, k) ==
    IF k = 0 THEN rts ELSE PassChain(PassUpdated(rts, today), today, k - 1)

calculateNextDue(startDate, today) ==
    IF isBefore(parseISO(startDate), today) THEN format(today) ELSE startDate

\* .slice(0, 5)
UpcomingLimit == 5

activeRecurring_All(recurring) == recurring

activeRecurring(recurring) == SelectSeq(recurring, LAMBDA t : t.isActive)

\* .sort((a, b) => new Date(a.nextDue) - new Date(b.nextDue)), a stable sort
RECURSIVE InsertByNextDue(_, _)
InsertByNextDue(sorted, t) ==
    IF sorted = <<>> THEN <<t>>
    ELSE IF Head(sorted).nextDue <= t.nextDue
         THEN <<Head(sorted)>> \o InsertByNextDue(Tail(sorted), t)
         ELSE <<t>> \o sorted

RECURSIVE SortByNextDue(_)
SortByNextDue(recurring) ==
    IF recurring = <<>> THEN <<>>
    ELSE InsertByNextDue(SortByNextDue(SubSeq(recurring, 1, Len(recurring) - 1)),
                         recurring[Len(recurring)])

slice(list, end) == SubSeq(list, 1, IF Len(list) < end THEN Len(list) ELSE end)

upcomingTransactions(recurring) ==
    slice(SortByNextDue(SelectSeq(activeRecurring(recurring),
                                  LAMBDA t : t.nextDue # NoDate)),
          UpcomingLimit)

FormInvalid(form) ==
    form.description = <<>> \/ form.amount = <<>> \/ form.category = ""

\* the template handleSubmit builds from the form
SubmittedTemplate(form, editing, today, stamp) ==
    [id |-> IF editing # <<>> THEN editing[1].id ELSE stamp,
     type |-> form.type,
     description |-> form.description,
     amount |-> form.amount[1],
     category |-> form.category,
     frequency |-> form.frequency,
     startDate |-> form.startDate,
     endDate |-> form.endDate,
     isActive |-> form.isActive,
     lastProcessed |-> IF editing # <<>> THEN editing[1].lastProcessed ELSE NoDate,
     nextDue |-> calculateNextDue(form.startDate, today),
     createdAt |-> IF editing # <<>> THEN editing[1].createdAt ELSE stamp]

ProcessedNow(recurring, today) ==
    [recurring EXCEPT
        !.lastProcessed = format(today),
        !.nextDue = format(addMonths(today, FrequencyQuarters(recurring.frequency)))]

----------------------------------------------------------------------------
(* ExpenseTracker: handleSaveTransaction / handleDeleteTransaction *)

Upper(type) == IF type = "income" THEN "INCOME" ELSE "EXPENSE"

\* transactionAPI.createTransaction / updateTransaction payload
Payload(data) == [data EXCEPT !.type = Upper(data.type)]

\* the request handleSaveTransaction sends (remote-API store)
SaveRequest(editing, data) ==
    IF editing # <<>>
    THEN [op |-> "update", id |-> editing[1].id, data |-> Payload(data)]
    ELSE [op |-> "create", id |-> NoId, data |-> Payload(data)]

\* the requests of the calls one handler makes
RECURSIVE SaveRequests(_, _)
SaveRequests(editing, calls) ==
    IF calls = <<>> THEN EmptyBag
    ELSE SetToBag({SaveRequest(editing, Head(calls))})
         (+) SaveRequests(editing, Tail(calls))

\* the request handleDeleteTransaction sends
DeleteRequest(id) == [op |-> "delete", id |-> id, data |-> <<>>]

\* response.data: the record the remote collaborator answers with
ServerRecord(req, newId) ==
    [req.data EXCEPT !.id = IF req.op = "create" THEN newId ELSE req.id]

ReplaceById(txs, id, rec) ==
    [i \in DOMAIN txs |-> IF txs[i].id = id THEN rec ELSE txs[i]]

RemoveById(txs, id) == SelectSeq(txs, LAMBDA t : t.id # id)

\* the list after a successful response
Committed(txs, req, newId) ==
    IF req.op = "update" THEN ReplaceById(txs, req.id, ServerRecord(req, newId))
    ELSE IF req.op = "create" THEN <<ServerRecord(req, newId)>> \o txs
    ELSE RemoveById(txs, req.id)

\* filter(t => t.type === type).reduce((sum, t) => sum + t.amount, 0)
RECURSIVE SumOfType(_, _)
SumOfType(txs, type) ==
    IF txs = <<>> THEN 0
    ELSE (IF Head(txs).type = type THEN Head(txs).amount ELSE 0)
         + SumOfType(Tail(txs), type)

\* response.data of dashboardAPI.getSummary: the remote collaborator's totals
\* of the records it holds
Summary(txs) ==
    LET income == SumOfType(txs, "INCOME")
        expense == SumOfType(txs, "EXPENSE")
    IN  [totalIncome |-> income, totalExpenses |-> expense,
         balance |-> income - expense]

\* income, expense and balance computed from a list
TotalsOf(txs) ==
    LET income == SumOfType(txs, "income")
        expense == SumOfType(txs, "expense")
    IN  [income |-> income, expense |-> expense, balance |-> income - expense]

\* x || 0
OrZero(x) == x

overallTotals(data, txs) ==
    IF data # <<>>
    THEN [income |-> OrZero(data[1].totalIncome),
          expense |-> OrZero(data[1].totalExpenses),
          balance |-> OrZero(data[1].balance)]
    ELSE TotalsOf(txs)

\* handleSaveTransaction of the local-storage store
LocalSave(txs, editing, data, stamp) ==
    IF editing # <<>>
    THEN ReplaceById(txs, editing[1].id, [data EXCEPT !.id = editing[1].id])
    ELSE <<[data EXCEPT !.id = stamp]>> \o txs

\* the calls of one handler, each reading Date.now() as stamps[k]
RECURSIVE LocalSaves(_, _, _, _)
LocalSaves(txs, editing, calls, stamps) ==
    IF calls = <<>> THEN txs
    ELSE LocalSaves(LocalSave(txs, editing, Head(calls), Head(stamps)),
                    editing, Tail(calls), Tail(stamps))

\* the readings of Date.now() n calls can make after the reading `from`:
\* the clock may or may not have moved on between two of them
StampSeqs(from, n) ==
    { s \in [1..n -> from..(from + n)] :
        \A k \in 1..n : s[k] - (IF k = 1 THEN from ELSE s[k - 1]) \in {0, 1} }

----------------------------------------------------------------------------
(* ExpenseTracker: filteredTransactions, with the date-fns it uses *)

\* days from 0001-01-01, a Monday, to the first day of the year
DaysBeforeYear(y) ==
    365 * (y - 1) + ((y - 1) \div 4) - ((y - 1) \div 100) + ((y - 1) \div 400)

RECURSIVE DaysBeforeMonth(_, _)
DaysBeforeMonth(y, m) ==
    IF m = 1 THEN 0 ELSE DaysBeforeMonth(y, m - 1) + DaysInMonth(y, m - 1)

\* Date.getDay(): 0 is Sunday
getDay(date) ==
    (DaysBeforeYear(date.y) + DaysBeforeMonth(date.y, date.m) + date.d) % 7

\* Date.setDate(getDate() + n), one day at a time
RECURSIVE setDate(_, _)
setDate(date, n) ==
    IF n = 0 THEN date
    ELSE IF n > 0
         THEN setDate(IF date.d < DaysInMonth(date.y, date.m)
                      THEN [date EXCEPT !.d = date.d + 1]
                      ELSE IF date.m < 12
                           THEN [date EXCEPT !.m = date.m + 1, !.d = 1]
                           ELSE [date EXCEPT !.y = date.y + 1, !.m = 1, !.d = 1],
                      n - 1)
         ELSE setDate(IF date.d > 1
                      THEN [date EXCEPT !.d = date.d - 1]
                      ELSE IF date.m > 1
                           THEN [date EXCEPT !.m = date.m - 1,
                                             !.d = DaysInMonth(date.y, date.m - 1)]
                           ELSE [date EXCEPT !.y = date.y - 1, !.m = 12, !.d = 31],
                      n + 1)

\* setHours(0, 0, 0, 0) and setHours(23, 59, 59, 999)
startOfDay(date) == [date EXCEPT !.t = 0]
endOfDay(date) == [date EXCEPT !.t = 1]

\* weekStartsOn is 0, the default locale's Sunday
startOfWeek(date) == startOfDay(setDate(date, 0 - getDay(date)))
endOfWeek(date) == endOfDay(setDate(date, 6 - getDay(date)))
startOfMonth(date) == startOfDay([date EXCEPT !.d = 1])
endOfMonth(date) == endOfDay([date EXCEPT !.d = DaysInMonth(date.y, date.m)])
startOfYear(date) == startOfDay([date EXCEPT !.m = 1, !.d = 1])
endOfYear(date) == endOfDay([date EXCEPT !.m = 12, !.d = 31])

isWithinInterval(date, start, end) == ~Earlier(date, start) /\ ~Earlier(end, date)

subDays(date, amount) == setDate(date, 0 - amount)
subMonths(date, amount) == addMonths(date, 0 - 4 * amount)

\* A text is the sequence of its words, '' being <<>>; a category is a text
\* of one word.  String.toLowerCase(), word by word:
Lower(word) ==
    CASE word \in {"Rent", "RENT"} -> "rent"
      [] word \in {"Food", "FOOD"} -> "food"
      [] word = "Lunch" -> "lunch"
      [] word = "Salary" -> "salary"
      [] word = "Pay" -> "pay"
      [] word = "(Auto)" -> "(auto)"
      [] word = "(Manual)" -> "(manual)"
      [] OTHER -> word

toLowerCase(text) == [i \in DOMAIN text |-> Lower(text[i])]

Text(category) == IF category = "" THEN <<>> ELSE <<category>>

\* String.includes(): term occurs in text as a run of consecutive words
includes(text, term) ==
    \E k \in 0..Len(text) :
        /\ k + Len(term) <= Len(text)
        /\ SubSeq(text, k + 1, k + Len(term)) = term

\* MatchesSearch comparing the texts as typed, case included
MatchesSearch_CaseSensitive(t, searchTerm) ==
    includes(t.description, searchTerm) \/ includes(Text(t.category), searchTerm)

MatchesSearch(t, searchTerm) ==
    \/ includes(toLowerCase(t.description), toLowerCase(searchTerm))
    \/ includes(toLowerCase(Text(t.category)), toLowerCase(searchTerm))

InDateRange(t, dateRange, today) ==
    CASE dateRange = "today" -> format(parseISO(t.date)) = format(today)
      [] dateRange = "week" ->
            isWithinInterval(parseISO(t.date), startOfWeek(today), endOfWeek(today))
      [] dateRange = "month" ->
            isWithinInterval(parseISO(t.date), startOfMonth(today), endOfMonth(today))
      [] dateRange = "year" ->
            isWithinInterval(parseISO(t.date), startOfYear(today), endOfYear(today))
      [] OTHER -> TRUE

\* Array.sort((a, b) => new Date(b.date) - new Date(a.date)): stable, the
\* later date first
\* InsertByDate putting t before the entries of its own date
RECURSIVE InsertByDate_BeforeEqual(_, _)
InsertByDate_BeforeEqual(sorted, t) ==
    IF sorted = <<>> THEN <<t>>
    ELSE IF Head(sorted).date > t.date
         THEN <<Head(sorted)>> \o InsertByDate_BeforeEqual(Tail(sorted), t)
         ELSE <<t>> \o sorted

RECURSIVE InsertByDate(_, _)
InsertByDate(sorted, t) ==
    IF sorted = <<>> THEN <<t>>
    ELSE IF Head(sorted).date >= t.date
         THEN <<Head(sorted)>> \o InsertByDate(Tail(sorted), t)
         ELSE <<t>> \o sorted

RECURSIVE SortByDate(_)
SortByDate(txs) ==
    IF txs = <<>> THEN <<>>
    ELSE InsertByDate(SortByDate(SubSeq(txs, 1, Len(txs) - 1)), txs[Len(txs)])

\* searchTerm '', filterType 'all', filterCategory 'all', dateRange 'all'
NoFilters ==
    [searchTerm |-> <<>>, filterType |-> "all", filterCategory |-> "all",
     dateRange |-> "all"]

\* the four filter steps before the sort
Filtered(txs, f, today) ==
    LET bySearch == IF f.searchTerm # <<>>
                    THEN SelectSeq(txs, LAMBDA t : MatchesSearch(t, f.searchTerm))
                    ELSE txs
        byType == IF f.filterType # "all"
                  THEN SelectSeq(bySearch, LAMBDA t : t.type = f.filterType)
                  ELSE bySearch
        byCategory == IF f.filterCategory # "all"
                      THEN SelectSeq(byType, LAMBDA t : t.category = f.filterCategory)
                      ELSE byType
    IN  IF f.dateRange # "all"
        THEN SelectSeq(byCategory, LAMBDA t : InDateRange(t, f.dateRange, today))
        ELSE byCategory

filteredTransactions(txs, f, today) == SortByDate(Filtered(txs, f, today))

\* `filtered` is the array `transactions` itself when no filter step ran:
\* the sort then reorders the Entry Store in place
Rendered(txs, f) == IF f = NoFilters THEN SortByDate(txs) ELSE txs

filteredTotals(txs, f, today) == TotalsOf(filteredTransactions(txs, f, today))

----------------------------------------------------------------------------
(* State machine *)

RecentCount == 5

\* new Date(): the clock's day at a time of day, exactly midnight or later
Dates == { [parseISO(now) EXCEPT !.t = t] : t \in {0, 1} }

Mounted == activeTab = "recurring"

\* no run of the scheduler effect is pending: the next event is handled
Quiet == effect = "idle"

\* a re-render of ExpenseTracker hands RecurringTransactions a new
\* onAddTransaction, a dependency of the scheduler effect
Rerendered(changed) == IF Mounted /\ changed THEN "event" ELSE "idle"

Pending == BagCardinality(inflight)

\* the second tab not opened on the Recurring tab
NoOtherTab == [mounted |-> FALSE, recurringTransactions |-> <<>>, emitted |-> <<>>]

\* useState(null): nobody is signed in; localStorage.getItem of a missing key
NoUser == "none"

\* The session of a signed-in user whose token was validated: the tracker is
\* shown
SignedIn == [user |-> "profile", isLoading |-> FALSE, isOnline |-> TRUE,
             lastChecked |-> NoDate,
             token |-> TRUE, refreshToken |-> TRUE, currentUser |-> "profile",
             initialized |-> TRUE, pending |-> {}]

\* the effect's cleanup with the timer left running
Cleanup_Skipped(live) == live

\* return () => clearInterval(interval): the timer the last run installed
Cleanup(live) == IF live > 0 THEN live - 1 ELSE 0

Init ==
    /\ now = 20240101
    /\ ms = 0
    /\ backend \in {"api", "local"}
    /\ transactions = <<>>
    /\ editingTransaction = <<>>
    /\ showTransactionForm = FALSE
    /\ activeTab = "dashboard"
    /\ inflight = EmptyBag
    /\ srvId = 0
    /\ recurringTransactions = <<>>
    /\ recEditing = <<>>
    /\ stored = <<>>
    /\ effect = "idle"
    /\ onAddCalls = <<>>
    /\ alerted = ""
    /\ filters = NoFilters
    /\ dashboardData = <<>>
    /\ intervals = 0
    /\ otherTab = NoOtherTab
    /\ auth = SignedIn

AdvanceClock ==
    /\ Quiet
    /\ \E d \in ClockDays : d > now /\ now' = d
    /\ onAddCalls' = <<>>
    /\ alerted' = ""
    /\ UNCHANGED <<auth, otherTab, intervals, dashboardData, filters, ms, backend, transactions, editingTransaction, showTransactionForm,
                   activeTab, inflight, srvId, recurringTransactions, recEditing,
                   stored, effect>>

\* nav tab click; RecurringTransactions mounts (state [] then the saved list)
\* or unmounts (its state and its interval are dropped)
SetActiveTab(tab) ==
    /\ Quiet
    /\ tab # activeTab
    /\ activeTab' = tab
    /\ recurringTransactions' = IF tab = "recurring" THEN stored ELSE <<>>
    /\ recEditing' = <<>>
    /\ effect' = IF tab = "recurring" THEN "event" ELSE "idle"
    /\ intervals' = IF Mounted THEN Cleanup(intervals) ELSE intervals
    /\ onAddCalls' = <<>>
    /\ alerted' = ""
    /\ UNCHANGED <<auth, otherTab, dashboardData, filters, now, ms, backend, transactions, editingTransaction,
                   showTransactionForm, inflight, srvId, stored>>

\* processRecurringTransactions, with onAddTransaction = handleSaveTransaction
Pass(today) ==
    LET calls == PassCalls(recurringTransactions, today)
        n == Len(calls)
    IN  /\ Mounted
        /\ Len(transactions) + Pending + n <= MaxTx
        /\ IF backend = "api"
           THEN /\ inflight' = inflight (+) SaveRequests(editingTransaction, calls)
                /\ UNCHANGED <<ms, transactions, editingTransaction, showTransactionForm>>
           ELSE /\ \E stamps \in StampSeqs(ms, n) :
                      /\ ms' = IF n = 0 THEN ms ELSE stamps[n]
                      /\ ms' <= MaxMs
                      /\ transactions' =
                            Rendered(LocalSaves(transactions, editingTransaction,
                                                calls, stamps), filters)
                /\ editingTransaction' = IF n = 0 THEN editingTransaction ELSE <<>>
                /\ showTransactionForm' = IF n = 0 THEN showTransactionForm ELSE FALSE
                /\ UNCHANGED inflight
        /\ recurringTransactions' =
              IF n > 0 THEN PassUpdated(recurringTransactions, today)
              ELSE recurringTransactions
        /\ stored' = recurringTransactions'
        /\ effect' = IF n > 0 THEN "pass" ELSE "idle"
        /\ onAddCalls' = calls
        /\ alerted' = ""
        /\ UNCHANGED <<auth, otherTab, dashboardData, filters, backend, activeTab, srvId,
                       recEditing>>

\* a pass at an instant of the day the clock shows
RunPass(today) == Pass(today) /\ UNCHANGED now

\* the effect runs after a render in which one of its dependencies changed
\* (the cleanup of the run before it, the pass, then a new setInterval)
ProcessEffect ==
    /\ ~Quiet
    /\ \E today \in Dates : RunPass(today)
    /\ intervals' = Cleanup(intervals) + 1

\* the hourly setInterval callback
IntervalTick ==
    /\ Quiet
    /\ intervals > 0
    /\ \E today \in Dates : RunPass(today)
    /\ UNCHANGED intervals

\* the wall clock reaches the hour boundary at which it first shows a later
\* day: the setInterval callback runs then, if RecurringTransactions is
\* mounted; unmounted there is no interval and nothing runs
HourPasses ==
    /\ Quiet
    /\ \E d \in ClockDays :
          /\ d > now
          /\ now' = d
          /\ IF Mounted
             THEN /\ \E t \in {0, 1} : Pass([parseISO(d) EXCEPT !.t = t])
                  /\ intervals > 0
                  /\ UNCHANGED intervals
             ELSE /\ onAddCalls' = <<>>
                  /\ alerted' = ""
                  /\ UNCHANGED <<auth, otherTab, intervals, dashboardData, filters, ms, backend, transactions, editingTransaction,
                                 showTransactionForm, activeTab, inflight, srvId,
                                 recurringTransactions, recEditing, stored, effect>>

handleSubmit(form, today) ==
    /\ Quiet /\ Mounted
    /\ IF FormInvalid(form)
       THEN /\ alerted' = "required"
            /\ UNCHANGED <<ms, recurringTransactions, recEditing, stored, effect>>
       ELSE /\ alerted' = ""
            /\ IF recEditing # <<>>
               THEN /\ recurringTransactions' =
                          [i \in DOMAIN recurringTransactions |->
                              IF recurringTransactions[i].id = recEditing[1].id
                              THEN SubmittedTemplate(form, recEditing, today, ms)
                              ELSE recurringTransactions[i]]
                    /\ UNCHANGED ms
               ELSE /\ Len(recurringTransactions) < MaxTemplates
                    /\ ms < MaxMs
                    /\ ms' = ms + 1
                    /\ recurringTransactions' =
                          Append(recurringTransactions,
                                 SubmittedTemplate(form, recEditing, today, ms'))
            /\ recEditing' = <<>>
            /\ stored' = recurringTransactions'
            /\ effect' = "event"
    /\ onAddCalls' = <<>>
    /\ UNCHANGED <<auth, otherTab, intervals, dashboardData, filters, now, backend, transactions, editingTransaction, showTransactionForm,
                   activeTab, inflight, srvId>>

handleEdit(i) ==
    /\ Quiet /\ Mounted
    /\ i \in DOMAIN recurringTransactions
    /\ recEditing # <<recurringTransactions[i]>>
    /\ recEditing' = <<recurringTransactions[i]>>
    /\ onAddCalls' = <<>>
    /\ alerted' = ""
    /\ UNCHANGED <<auth, otherTab, intervals, dashboardData, filters, now, ms, backend, transactions, editingTransaction,
                   showTransactionForm, activeTab, inflight, srvId,
                   recurringTransactions, stored, effect>>

resetForm ==
    /\ Quiet /\ Mounted
    /\ recEditing # <<>>
    /\ recEditing' = <<>>
    /\ onAddCalls' = <<>>
    /\ alerted' = ""
    /\ UNCHANGED <<auth, otherTab, intervals, dashboardData, filters, now, ms, backend, transactions, editingTransaction,
                   showTransactionForm, activeTab, inflight, srvId,
                   recurringTransactions, stored, effect>>

handleDelete(i) ==
    /\ Quiet /\ Mounted
    /\ i \in DOMAIN recurringTransactions
    /\ recurringTransactions' =
          SelectSeq(recurringTransactions,
                    LAMBDA t : t.id # recurringTransactions[i].id)
    /\ stored' = recurringTransactions'
    /\ effect' = "event"
    /\ onAddCalls' = <<>>
    /\ alerted' = ""
    /\ UNCHANGED <<auth, otherTab, intervals, dashboardData, filters, now, ms, backend, transactions, editingTransaction,
                   showTransactionForm, activeTab, inflight, srvId, recEditing>>

\* the map of toggleActive flipping every template
Toggled_All(rts, id) ==
    [k \in DOMAIN rts |-> [rts[k] EXCEPT !.isActive = ~rts[k].isActive]]

\* prev.map(t => t.id === id ? { ...t, isActive: !t.isActive } : t)
Toggled(rts, id) ==
    [k \in DOMAIN rts |->
        IF rts[k].id = id THEN [rts[k] EXCEPT !.isActive = ~rts[k].isActive]
        ELSE rts[k]]

toggleActive(i) ==
    /\ Quiet /\ Mounted
    /\ i \in DOMAIN recurringTransactions
    /\ recurringTransactions' =
          Toggled(recurringTransactions, recurringTransactions[i].id)
    /\ stored' = recurringTransactions'
    /\ effect' = "event"
    /\ onAddCalls' = <<>>
    /\ alerted' = ""
    /\ UNCHANGED <<auth, otherTab, intervals, dashboardData, filters, now, ms, backend, transactions, editingTransaction,
                   showTransactionForm, activeTab, inflight, srvId, recEditing>>

\* the "Process Now" button, rendered for the templates of activeRecurring only
ProcessNowOffered(recurring) == recurring.isActive

processNow(i, today) ==
    LET recurring == recurringTransactions[i]
        call == NewTransaction(recurring, today, "(Manual)")
    IN  /\ Quiet /\ Mounted
        /\ i \in DOMAIN recurringTransactions
        /\ ProcessNowOffered(recurring)
        /\ Len(transactions) + Pending < MaxTx
        /\ IF backend = "api"
           THEN /\ inflight' = inflight (+) SetToBag({SaveRequest(editingTransaction, call)})
                /\ UNCHANGED <<ms, transactions, editingTransaction, showTransactionForm>>
           ELSE /\ ms < MaxMs
                /\ ms' = ms + 1
                /\ transactions' =
                      Rendered(LocalSave(transactions, editingTransaction, call, ms'),
                               filters)
                /\ editingTransaction' = <<>>
                /\ showTransactionForm' = FALSE
                /\ UNCHANGED inflight
        /\ recurringTransactions' =
              [k \in DOMAIN recurringTransactions |->
                  IF recurringTransactions[k].id = recurring.id
                  THEN ProcessedNow(recurringTransactions[k], today)
                  ELSE recurringTransactions[k]]
        /\ stored' = recurringTransactions'
        /\ effect' = "event"
        /\ onAddCalls' = <<call>>
        /\ alerted' = ""
        /\ UNCHANGED <<auth, otherTab, intervals, dashboardData, filters, now, backend, activeTab, srvId, recEditing>>

\* header button "Add Transaction"
OpenAddForm ==
    /\ Quiet
    /\ editingTransaction # <<>> \/ ~showTransactionForm
    /\ editingTransaction' = <<>>
    /\ showTransactionForm' = TRUE
    /\ effect' = Rerendered(TRUE)
    /\ onAddCalls' = <<>>
    /\ alerted' = ""
    /\ UNCHANGED <<auth, otherTab, intervals, dashboardData, filters, now, ms, backend, transactions, activeTab, inflight, srvId,
                   recurringTransactions, recEditing, stored>>

\* the edit button of a row of the dashboard's recent transactions
handleEditTransaction(i) ==
    /\ Quiet
    /\ activeTab = "dashboard"
    /\ i \in DOMAIN transactions /\ i <= RecentCount
    /\ editingTransaction # <<transactions[i]>> \/ ~showTransactionForm
    /\ editingTransaction' = <<transactions[i]>>
    /\ showTransactionForm' = TRUE
    /\ onAddCalls' = <<>>
    /\ alerted' = ""
    /\ UNCHANGED <<auth, otherTab, intervals, dashboardData, filters, now, ms, backend, transactions, activeTab, inflight, srvId,
                   recurringTransactions, recEditing, stored, effect>>

\* onCancel of the TransactionForm
CancelForm ==
    /\ Quiet
    /\ showTransactionForm
    /\ showTransactionForm' = FALSE
    /\ editingTransaction' = <<>>
    /\ effect' = Rerendered(TRUE)
    /\ onAddCalls' = <<>>
    /\ alerted' = ""
    /\ UNCHANGED <<auth, otherTab, intervals, dashboardData, filters, now, ms, backend, transactions, activeTab, inflight, srvId,
                   recurringTransactions, recEditing, stored>>

\* onSave of the TransactionForm
handleSaveTransaction(data) ==
    /\ Quiet
    /\ showTransactionForm
    /\ IF backend = "api"
       THEN /\ Len(transactions) + Pending < MaxTx
            /\ inflight' = inflight (+) SetToBag({SaveRequest(editingTransaction, data)})
            /\ UNCHANGED <<ms, transactions, editingTransaction, showTransactionForm,
                           effect>>
       ELSE /\ IF editingTransaction # <<>>
               THEN UNCHANGED ms
               ELSE /\ Len(transactions) < MaxTx
                    /\ ms < MaxMs
                    /\ ms' = ms + 1
            /\ transactions' =
                  Rendered(LocalSave(transactions, editingTransaction, data, ms'),
                           filters)
            /\ editingTransaction' = <<>>
            /\ showTransactionForm' = FALSE
            /\ effect' = Rerendered(TRUE)
            /\ UNCHANGED inflight
    /\ onAddCalls' = <<>>
    /\ alerted' = ""
    /\ UNCHANGED <<auth, otherTab, intervals, dashboardData, filters, now, backend, activeTab, srvId, recurringTransactions, recEditing,
                   stored>>

\* the delete button of a row of the dashboard's recent transactions,
\* window.confirm answered yes
handleDeleteTransaction(i) ==
    /\ Quiet
    /\ activeTab = "dashboard"
    /\ i \in DOMAIN transactions /\ i <= RecentCount
    /\ IF backend = "api"
       THEN /\ Pending < MaxTx
            /\ inflight' = inflight (+) SetToBag({DeleteRequest(transactions[i].id)})
            /\ UNCHANGED transactions
       ELSE /\ transactions' =
                  Rendered(RemoveById(transactions, transactions[i].id), filters)
            /\ UNCHANGED inflight
    /\ onAddCalls' = <<>>
    /\ alerted' = ""
    /\ UNCHANGED <<auth, otherTab, intervals, dashboardData, filters, now, ms, backend, editingTransaction, showTransactionForm, activeTab,
                   srvId, recurringTransactions, recEditing, stored, effect>>

\* what the resumed handler does with the answer of the remote collaborator
Answered(req, outcome) ==
    /\ IF outcome \in {"success", "unrefreshed"}
       THEN /\ transactions' =
                  Rendered(Committed(transactions, req, srvId + 1), filters)
            /\ srvId' = IF req.op = "create" THEN srvId + 1 ELSE srvId
            /\ srvId' <= MaxMs
       ELSE UNCHANGED <<transactions, srvId>>
    /\ dashboardData' = IF outcome = "success"
                        THEN <<Summary(transactions')>> ELSE dashboardData
    /\ IF outcome # "reject" /\ req.op # "delete"
       THEN /\ showTransactionForm' = FALSE
            /\ editingTransaction' = <<>>
       ELSE UNCHANGED <<showTransactionForm, editingTransaction>>
    /\ alerted' = IF outcome = "reject"
                  THEN (IF req.op = "delete" THEN "delete failed" ELSE "save failed")
                  ELSE ""
    /\ effect' = Rerendered(\/ outcome \in {"success", "unrefreshed"}
                            \/ showTransactionForm' # showTransactionForm
                            \/ editingTransaction' # editingTransaction)

\* a transactionAPI promise settles
ApiRespond(req, outcome) ==
    /\ Quiet
    /\ BagIn(req, inflight)
    /\ inflight' = inflight (-) SetToBag({req})
    /\ Answered(req, outcome)
    /\ onAddCalls' = <<>>
    /\ UNCHANGED <<auth, otherTab, intervals, filters, now, ms, backend, activeTab,
                   recurringTransactions, recEditing, stored>>

\* the loadDashboardData of the mount effect settles with a summary
loadDashboardData ==
    /\ Quiet
    /\ backend = "api"
    /\ dashboardData # <<Summary(transactions)>>
    /\ dashboardData' = <<Summary(transactions)>>
    /\ onAddCalls' = <<>>
    /\ alerted' = ""
    /\ UNCHANGED <<auth, otherTab, intervals, now, ms, transactions, backend, editingTransaction,
                   showTransactionForm, activeTab, inflight, srvId,
                   recurringTransactions, recEditing, stored, effect, filters>>

\* The Recurring tab opened on a saved collection of templates whose first
\* occurrence is still to come
UpcomingDays == {20240201, 20240301}

SavedTemplate(id, startDate, isActive) ==
    SubmittedTemplate(RecurringForm("monthly", startDate, isActive, <<1200>>),
                      <<>>, parseISO(20240101), id)

\* (ids are readings of Date.now() from before this session's first one)
SavedCollections(n) ==
    { [i \in 1..n |-> SavedTemplate(i - n - 1, d[i], a[i])] :
        d \in [1..n -> UpcomingDays], a \in [1..n -> BOOLEAN] }

InitUpcoming ==
    /\ now = 20240101
    /\ ms = 0
    /\ backend = "local"
    /\ transactions = <<>>
    /\ editingTransaction = <<>>
    /\ showTransactionForm = FALSE
    /\ activeTab = "recurring"
    /\ inflight = EmptyBag
    /\ srvId = 0
    /\ \E n \in 0..MaxUpcoming : recurringTransactions \in SavedCollections(n)
    /\ recEditing = <<>>
    /\ stored = recurringTransactions
    /\ effect = "idle"
    /\ onAddCalls = <<>>
    /\ alerted = ""
    /\ filters = NoFilters
    /\ dashboardData = <<>>
    /\ intervals = 1
    /\ otherTab = NoOtherTab
    /\ auth = SignedIn

NextUpcoming ==
    \/ ProcessEffect
    \/ \E i \in 1..MaxUpcoming : toggleActive(i)

SpecUpcoming == InitUpcoming /\ [][NextUpcoming]_vars

\* The application started on templates that earlier sessions saved: each as
\* handleSubmit built it on its start day, overdue or still to come
SavedFrequencies == {"weekly", "monthly", "yearly"}

SavedStartDays == {20231201, 20240301}

SavedOn(id, frequency, startDate, isActive) ==
    SubmittedTemplate(RecurringForm(frequency, startDate, isActive, <<1200>>),
                      <<>>, parseISO(startDate), id)

SavedLists(n) ==
    { [i \in 1..n |-> SavedOn(i - n - 1, f[i], d[i], a[i])] :
        f \in [1..n -> SavedFrequencies], d \in [1..n -> SavedStartDays],
        a \in [1..n -> BOOLEAN] }

InitPass ==
    /\ now \in ClockDays
    /\ ms = 0
    /\ backend \in {"api", "local"}
    /\ transactions = <<>>
    /\ editingTransaction = <<>>
    /\ showTransactionForm = FALSE
    /\ activeTab = "dashboard"
    /\ inflight = EmptyBag
    /\ srvId = 0
    /\ recurringTransactions = <<>>
    /\ recEditing = <<>>
    /\ \E n \in 0..MaxSaved : stored \in SavedLists(n)
    /\ effect = "idle"
    /\ onAddCalls = <<>>
    /\ alerted = ""
    /\ filters = NoFilters
    /\ dashboardData = <<>>
    /\ intervals = 0
    /\ otherTab = NoOtherTab
    /\ auth = SignedIn

NextPass ==
    \/ AdvanceClock
    \/ \E tab \in Tabs : SetActiveTab(tab)
    \/ ProcessEffect
    \/ IntervalTick
    \/ \E i \in 1..MaxSaved : toggleActive(i)
    \/ \E req \in BagToSet(inflight), outcome \in Outcomes : ApiRespond(req, outcome)

SpecPass == InitPass /\ [][NextPass]_vars

\* for (let i = 5; i >= 0; i--)
SeriesMonths == 6

\* the interval of bucket i of the dashboard's 6-month trend
TrendInterval(today, i) ==
    LET date == subDays(today, i * 30)
    IN  [start |-> startOfDay(subDays(date, 15)),
         end |-> endOfDay(subDays(date, 0 - 15))]

\* the interval of bucket i of the reports' 6-month comparison
ComparisonInterval(today, i) ==
    LET date == subMonths(today, i)
    IN  [start |-> startOfMonth(date), end |-> endOfMonth(date)]

monthTransactions(txs, interval) ==
    SelectSeq(txs, LAMBDA t : isWithinInterval(parseISO(t.date),
                                                interval.start, interval.end))

\* the income and expense series, the oldest bucket first
monthlyTrendData(txs, today) ==
    [k \in 1..SeriesMonths |->
        LET month == monthTransactions(txs, TrendInterval(today, SeriesMonths - k))
        IN  [income |-> SumOfType(month, "income"),
             expense |-> SumOfType(month, "expense")]]

monthlyComparisonData(txs, today) ==
    [k \in 1..SeriesMonths |->
        LET month == monthTransactions(txs, ComparisonInterval(today, SeriesMonths - k))
        IN  [income |-> SumOfType(month, "income"),
             expense |-> SumOfType(month, "expense")]]

\* A JavaScript number that comes out of a division, to one decimal place:
\* NaN (0 / 0), Infinity (x / 0) or the quotient in tenths
Number(tenths) == [isNaN |-> FALSE, isFinite |-> TRUE, tenths |-> tenths]

\* a / b
Quotient(a, b) ==
    IF b = 0
    THEN [isNaN |-> a = 0, isFinite |-> FALSE, tenths |-> 0]
    ELSE Number((a * 10) \div b)

\* Math.max(a, b)
Max(a, b) == IF a > b THEN a ELSE b

\* the Reports component's filteredTransactions for reportPeriod 'month'
ReportTransactions(txs, today) ==
    monthTransactions(txs, [start |-> startOfMonth(today), end |-> endOfMonth(today)])

\* periodTotals.savings
savings(txs) ==
    LET income == SumOfType(txs, "income")
        expense == SumOfType(txs, "expense")
    IN  IF income > 0 THEN Quotient((income - expense) * 100, income) ELSE Number(0)

\* periodTotals.expense / Math.max(number of expenses, 1)
averageExpense(txs) ==
    Quotient(SumOfType(txs, "expense"),
             Max(Len(SelectSeq(txs, LAMBDA t : t.type = "expense")), 1))

\* periodTotals.income / Math.max(periodTotals.expense, 1)
incomeExpenseRatio(txs) ==
    Quotient(SumOfType(txs, "income"), Max(SumOfType(txs, "expense"), 1))

\* acc[t.category] = (acc[t.category] || 0) + t.amount over the entries of a type
RECURSIVE CategoryAmount(_, _, _)
CategoryAmount(txs, type, category) ==
    IF txs = <<>> THEN 0
    ELSE (IF Head(txs).type = type /\ Head(txs).category = category
          THEN Head(txs).amount ELSE 0)
         + CategoryAmount(Tail(txs), type, category)

\* the keys of that object
CategoriesOf(txs, type) == { t.category : t \in {txs[i] : i \in DOMAIN txs} } \cap
                           { txs[i].category : i \in {k \in DOMAIN txs : txs[k].type = type} }

\* the width of a category bar of TransactionList: (amount / totals[type]) * 100
categoryShare(txs, totals, type, category) ==
    Quotient(CategoryAmount(txs, type, category) * 100,
             IF type = "income" THEN totals.income ELSE totals.expense)

\* the percentage of the pie tooltip label of one expense category:
\* (context.parsed * 100) / total, total the sum of the dataset
piePercentage(txs, category) ==
    Quotient(CategoryAmount(txs, "expense", category) * 100,
             SumOfType(txs, "expense"))

\* The dashboard and the reports over a local-storage store that holds
\* Transactions of the last months
ChartDays == {20240101, 20240331}

ChartEntries ==
    { ViewEntry(1, "expense", 50, "Food", <<"Lunch">>, 20240101),
      ViewEntry(2, "income", 3000, "Salary", <<"Pay">>, 20231217),
      ViewEntry(3, "expense", 1200, "Rent", <<"Rent">>, 20231115),
      ViewEntry(4, "income", 50, "Food", <<"Food">>, 20240229) }

ChartLists(n) ==
    { txs \in [1..n -> ChartEntries] :
        /\ \A i, j \in 1..n : i # j => txs[i] # txs[j]
        /\ Rendered(txs, NoFilters) = txs }

InitCharts ==
    /\ now \in ChartDays
    /\ ms = 0
    /\ backend = "local"
    /\ \E n \in 0..MaxTx : transactions \in ChartLists(n)
    /\ editingTransaction = <<>>
    /\ showTransactionForm = FALSE
    /\ activeTab = "dashboard"
    /\ inflight = EmptyBag
    /\ srvId = 0
    /\ recurringTransactions = <<>>
    /\ recEditing = <<>>
    /\ stored = <<>>
    /\ effect = "idle"
    /\ onAddCalls = <<>>
    /\ alerted = ""
    /\ filters = NoFilters
    /\ dashboardData = <<>>
    /\ intervals = 0
    /\ otherTab = NoOtherTab
    /\ auth = SignedIn

NextCharts ==
    \/ AdvanceClock
    \/ OpenAddForm
    \/ \E i \in 1..MaxTx : handleEditTransaction(i)
    \/ CancelForm
    \/ \E data \in FormEntries : handleSaveTransaction(data)
    \/ \E i \in 1..MaxTx : handleDeleteTransaction(i)

SpecCharts == InitCharts /\ [][NextCharts]_vars

\* const updatedTransactions = [...recurringTransactions], with the list
\* taken from localStorage instead
PassList_Reloaded(state, saved) == saved

\* const updatedTransactions = [...recurringTransactions]: the pass works on
\* the component's state, whatever localStorage holds by now
PassList(state, saved) == state

\* the second tab mounts RecurringTransactions: the load effect
OtherTabLoads ==
    /\ Quiet
    /\ ~otherTab.mounted
    /\ otherTab' = [otherTab EXCEPT !.mounted = TRUE,
                                    !.recurringTransactions = stored]
    /\ onAddCalls' = <<>>
    /\ alerted' = ""
    /\ UNCHANGED <<now, ms, backend, transactions, editingTransaction,
                   showTransactionForm, activeTab, inflight, srvId,
                   recurringTransactions, recEditing, stored, effect, filters,
                   dashboardData, intervals, auth>>

\* processRecurringTransactions in the second tab, and its save effect
OtherTabPass(today) ==
    LET list == PassList(otherTab.recurringTransactions, stored)
        calls == PassCalls(list, today)
    IN  /\ Quiet
        /\ otherTab.mounted
        /\ Len(otherTab.emitted) + Len(calls) <= MaxTx
        /\ otherTab' = [otherTab EXCEPT
                            !.recurringTransactions =
                                IF calls # <<>> THEN PassUpdated(list, today)
                                ELSE otherTab.recurringTransactions,
                            !.emitted = calls \o otherTab.emitted]
        /\ stored' = IF calls # <<>> THEN otherTab'.recurringTransactions ELSE stored
        /\ onAddCalls' = <<>>
        /\ alerted' = ""
        /\ UNCHANGED <<now, ms, backend, transactions, editingTransaction,
                       showTransactionForm, activeTab, inflight, srvId,
                       recurringTransactions, recEditing, effect, filters,
                       dashboardData, intervals, auth>>

\* The application started on saved templates, some with an endDate that is
\* past
SavedEndDates == {NoDate, 20231215}

EndedFrequencies == {"monthly", "yearly"}

SavedUntil(id, frequency, endDate, isActive) ==
    SubmittedTemplate([RecurringForm(frequency, 20231201, isActive, <<1200>>)
                          EXCEPT !.endDate = endDate],
                      <<>>, parseISO(20231201), id)

EndedLists(n) ==
    { [i \in 1..n |-> SavedUntil(i - n - 1, f[i], e[i], a[i])] :
        f \in [1..n -> EndedFrequencies], e \in [1..n -> SavedEndDates],
        a \in [1..n -> BOOLEAN] }

InitEnded ==
    /\ now \in ClockDays
    /\ ms = 0
    /\ backend \in {"api", "local"}
    /\ transactions = <<>>
    /\ editingTransaction = <<>>
    /\ showTransactionForm = FALSE
    /\ activeTab = "dashboard"
    /\ inflight = EmptyBag
    /\ srvId = 0
    /\ recurringTransactions = <<>>
    /\ recEditing = <<>>
    /\ \E n \in 0..MaxSaved : stored \in EndedLists(n)
    /\ effect = "idle"
    /\ onAddCalls = <<>>
    /\ alerted = ""
    /\ filters = NoFilters
    /\ dashboardData = <<>>
    /\ intervals = 0
    /\ otherTab = NoOtherTab
    /\ auth = SignedIn

NextEnded ==
    \/ AdvanceClock
    \/ \E tab \in Tabs : SetActiveTab(tab)
    \/ ProcessEffect
    \/ IntervalTick
    \/ \E i \in 1..MaxSaved, today \in Dates : processNow(i, today)
    \/ \E req \in BagToSet(inflight), outcome \in Outcomes : ApiRespond(req, outcome)

SpecEnded == InitEnded /\ [][NextEnded]_vars

\* The template handlers on the saved templates
NextTemplates ==
    \/ \E tab \in Tabs : SetActiveTab(tab)
    \/ ProcessEffect
    \/ \E form \in RecurringForms, today \in Dates : handleSubmit(form, today)
    \/ \E i \in 1..MaxSaved : handleDelete(i)
    \/ \E i \in 1..MaxSaved : toggleActive(i)
    \/ \E req \in BagToSet(inflight), outcome \in Outcomes : ApiRespond(req, outcome)

SpecTemplates == InitPass /\ [][NextTemplates]_vars

\* Two tabs of the application started on the same saved templates
NextTabs ==
    \/ AdvanceClock
    \/ \E tab \in Tabs : SetActiveTab(tab)
    \/ ProcessEffect
    \/ IntervalTick
    \/ OtherTabLoads
    \/ \E today \in Dates : OtherTabPass(today)
    \/ \E req \in BagToSet(inflight), outcome \in Outcomes : ApiRespond(req, outcome)

SpecTabs == InitPass /\ [][NextTabs]_vars

\* The scheduler with the Entry Store it feeds: the clock, the tabs, every
\* handler of RecurringTransactions, the edit of a stored Transaction and the
\* answers of the remote collaborator.
Next ==
    \/ AdvanceClock
    \/ \E tab \in Tabs : SetActiveTab(tab)
    \/ ProcessEffect
    \/ IntervalTick
    \/ \E form \in RecurringForms, today \in Dates : handleSubmit(form, today)
    \/ \E i \in 1..MaxTemplates : handleEdit(i)
    \/ resetForm
    \/ \E i \in 1..MaxTemplates : handleDelete(i)
    \/ \E i \in 1..MaxTemplates : toggleActive(i)
    \/ \E i \in 1..MaxTemplates, today \in Dates : processNow(i, today)
    \/ \E i \in 1..MaxTx : handleEditTransaction(i)
    \/ CancelForm
    \/ \E req \in BagToSet(inflight), outcome \in Outcomes : ApiRespond(req, outcome)

Spec == Init /\ [][Next]_vars

\* The Entry Store under the user's own submissions, with no template defined.
NextStore ==
    \/ OpenAddForm
    \/ \E i \in 1..MaxTx : handleEditTransaction(i)
    \/ CancelForm
    \/ \E data \in FormEntries : handleSaveTransaction(data)
    \/ \E i \in 1..MaxTx : handleDeleteTransaction(i)
    \/ loadDashboardData
    \/ \E req \in BagToSet(inflight), outcome \in StoreOutcomes :
          ApiRespond(req, outcome)

SpecStore == Init /\ [][NextStore]_vars

\* The scheduler hour by hour: the clock moves only at the hourly boundaries,
\* at which the interval callback (if any) runs; templates are created, paused
\* and resumed, and the tabs are switched, in between.
NextClock ==
    \/ HourPasses
    \/ \E tab \in Tabs : SetActiveTab(tab)
    \/ ProcessEffect
    \/ \E form \in RecurringForms, today \in Dates : handleSubmit(form, today)
    \/ \E i \in 1..MaxTemplates : toggleActive(i)
    \/ \E req \in BagToSet(inflight), outcome \in Outcomes : ApiRespond(req, outcome)

SpecClock == Init /\ [][NextClock]_vars

\* the filter controls of the reports tab
SetFilters(f) ==
    /\ Quiet
    /\ activeTab = "reports"
    /\ f # filters
    /\ filters' = f
    /\ transactions' = Rendered(transactions, f)
    /\ onAddCalls' = <<>>
    /\ alerted' = ""
    /\ UNCHANGED <<auth, otherTab, intervals, dashboardData, now, ms, backend, editingTransaction, showTransactionForm, activeTab,
                   inflight, srvId, recurringTransactions, recEditing, stored, effect>>

setSearchTerm(searchTerm) == SetFilters([filters EXCEPT !.searchTerm = searchTerm])
setFilterType(type) == SetFilters([filters EXCEPT !.filterType = type])
setFilterCategory(category) == SetFilters([filters EXCEPT !.filterCategory = category])
setDateRange(dateRange) == SetFilters([filters EXCEPT !.dateRange = dateRange])

\* the lists of at most MaxView distinct stored Transactions
ViewLists ==
    UNION { { txs \in [1..n -> ViewEntries] :
                \A i, j \in 1..n : i # j => txs[i] # txs[j] } : n \in 0..MaxView }

\* The reports tab over a store that holds some Transactions: the store is in
\* the order the last render left it in, sorted if no filter was set then.
InitView ==
    /\ now \in ViewDays
    /\ ms = 0
    /\ backend = "local"
    /\ filters \in [searchTerm : SearchTerms, filterType : FilterTypes,
                     filterCategory : FilterCategories, dateRange : DateRanges]
    /\ transactions \in {txs \in ViewLists : Rendered(txs, filters) = txs}
    /\ editingTransaction = <<>>
    /\ showTransactionForm = FALSE
    /\ activeTab = "reports"
    /\ inflight = EmptyBag
    /\ srvId = 0
    /\ recurringTransactions = <<>>
    /\ recEditing = <<>>
    /\ stored = <<>>
    /\ effect = "idle"
    /\ onAddCalls = <<>>
    /\ alerted = ""
    /\ dashboardData = <<>>
    /\ intervals = 0
    /\ otherTab = NoOtherTab
    /\ auth = SignedIn

NextView ==
    \/ \E searchTerm \in SearchTerms : setSearchTerm(searchTerm)
    \/ \E type \in FilterTypes : setFilterType(type)
    \/ \E category \in FilterCategories : setFilterCategory(category)
    \/ \E dateRange \in DateRanges : setDateRange(dateRange)

SpecView == InitView /\ [][NextView]_vars

----------------------------------------------------------------------------
(* AuthProvider, the api response interceptor and useBackendStatus *)

\* What the remote collaborator answers to a request: a 2xx body with success
\* true, a 2xx body with success false, no response at all, status 401, any
\* other error status
AuthOutcomes == {"success", "refused", "network", "unauthorized", "error"}

\* the response interceptor's error branch for status 401
ResponseInterceptor(a, outcome) ==
    IF outcome = "unauthorized"
    THEN [a EXCEPT !.token = FALSE, !.refreshToken = FALSE, !.currentUser = NoUser]
    ELSE a

clearAuthData(a) ==
    [a EXCEPT !.user = NoUser, !.token = FALSE, !.refreshToken = FALSE,
              !.currentUser = NoUser]

\* everything but the session
tracker == <<now, ms, backend, transactions, editingTransaction, showTransactionForm,
             activeTab, inflight, srvId, recurringTransactions, recEditing, stored,
             effect, onAddCalls, alerted, filters, dashboardData, intervals,
             otherTab>>

\* a request handed to axios
Sent(a, request) == [a EXCEPT !.pending = @ \cup {request}]

\* its response taken off the wire and passed through the interceptor
Received(a, request, outcome) ==
    ResponseInterceptor([a EXCEPT !.pending = @ \ {request}], outcome)

\* the mount effect of AuthProvider up to its await (or to its end when there
\* is no saved session)
initializeAuth ==
    /\ ~auth.initialized
    /\ "getProfile" \notin auth.pending
    /\ auth' = IF auth.token /\ auth.currentUser # NoUser
               THEN Sent([auth EXCEPT !.user = auth.currentUser], "getProfile")
               ELSE [auth EXCEPT !.isLoading = FALSE, !.initialized = TRUE]
    /\ UNCHANGED tracker

\* userAPI.getProfile() settles: the rest of initializeAuth
ProfileResponds ==
    /\ "getProfile" \in auth.pending
    /\ \E outcome \in AuthOutcomes :
          LET a == Received(auth, "getProfile", outcome)
              validated ==
                  CASE outcome = "success" ->
                         [a EXCEPT !.user = "profile", !.currentUser = "profile"]
                    [] outcome \in {"refused", "network"} -> a
                    [] OTHER -> clearAuthData(a)
          IN  auth' = [validated EXCEPT !.isLoading = FALSE, !.initialized = TRUE]
    /\ UNCHANGED tracker

\* login(credentials) / register(userData) up to the await; the forms are
\* shown when nobody is signed in
login ==
    /\ ~auth.isLoading /\ auth.user = NoUser
    /\ auth.pending \cap {"login", "register"} = {}
    /\ auth' = Sent(auth, "login")
    /\ UNCHANGED tracker

register ==
    /\ ~auth.isLoading /\ auth.user = NoUser
    /\ auth.pending \cap {"login", "register"} = {}
    /\ auth' = Sent(auth, "register")
    /\ UNCHANGED tracker

\* authAPI.login / authAPI.register settles
AuthResponds ==
    \E request \in auth.pending \cap {"login", "register"}, outcome \in AuthOutcomes :
        /\ LET a == Received(auth, request, outcome)
           IN  auth' = IF outcome = "success"
                       THEN [a EXCEPT !.token = TRUE, !.refreshToken = TRUE,
                                      !.user = "profile", !.currentUser = "profile"]
                       ELSE a
        /\ UNCHANGED tracker

\* logout() up to the await; the tracker's header shows the button
logout ==
    /\ ~auth.isLoading /\ auth.user # NoUser
    /\ "logout" \notin auth.pending
    /\ auth' = Sent(auth, "logout")
    /\ UNCHANGED tracker

\* authAPI.logout() settles: finally { clearAuthData() }
LogoutResponds ==
    /\ "logout" \in auth.pending
    /\ \E outcome \in AuthOutcomes :
          auth' = clearAuthData(Received(auth, "logout", outcome))
    /\ UNCHANGED tracker

\* checkBackendStatus up to the await, run by the timers of useBackendStatus
checkBackendStatus ==
    /\ "categories" \notin auth.pending
    /\ auth' = Sent(auth, "categories")
    /\ UNCHANGED tracker

\* api.get('/categories') settles
StatusResponds ==
    /\ "categories" \in auth.pending
    /\ \E outcome \in AuthOutcomes \ {"refused"} :
          auth' = [Received(auth, "categories", outcome)
                      EXCEPT !.isOnline = (outcome # "network"),
                             !.lastChecked = now]
    /\ UNCHANGED tracker

\* The page loads: localStorage holds the session keys of an earlier visit or
\* none of them
InitAuth ==
    /\ now = 20240101
    /\ ms = 0
    /\ backend = "api"
    /\ transactions = <<>>
    /\ editingTransaction = <<>>
    /\ showTransactionForm = FALSE
    /\ activeTab = "dashboard"
    /\ inflight = EmptyBag
    /\ srvId = 0
    /\ recurringTransactions = <<>>
    /\ recEditing = <<>>
    /\ stored = <<>>
    /\ effect = "idle"
    /\ onAddCalls = <<>>
    /\ alerted = ""
    /\ filters = NoFilters
    /\ dashboardData = <<>>
    /\ intervals = 0
    /\ otherTab = NoOtherTab
    /\ \E saved \in BOOLEAN :
          auth = [user |-> NoUser, isLoading |-> TRUE, isOnline |-> FALSE,
                  lastChecked |-> NoDate,
                  token |-> saved, refreshToken |-> saved,
                  currentUser |-> IF saved THEN "saved" ELSE NoUser,
                  initialized |-> FALSE, pending |-> {}]

NextAuth ==
    \/ AdvanceClock
    \/ initializeAuth
    \/ ProfileResponds
    \/ login
    \/ register
    \/ AuthResponds
    \/ logout
    \/ LogoutResponds
    \/ checkBackendStatus
    \/ StatusResponds

SpecAuth == InitAuth /\ [][NextAuth]_vars

----------------------------------------------------------------------------
(* The calendar, stated on yyyymmdd days, for the properties below *)

Ymd(y, m, d) == y * 10000 + m * 100 + d

NextDay(s) ==
    IF Day(s) < DaysInMonth(Year(s), Month(s)) THEN s + 1
    ELSE IF Month(s) < 12 THEN Ymd(Year(s), Month(s) + 1, 1)
    ELSE Ymd(Year(s) + 1, 1, 1)

RECURSIVE PlusDays(_, _)
PlusDays(s, n) == IF n = 0 THEN s ELSE PlusDays(NextDay(s), n - 1)

\* the same day of the month n months on, or that month's last day
PlusMonths(s, n) ==
    LET k == Month(s) - 1 + n
        y == Year(s) + (k \div 12)
        m == (k % 12) + 1
        last == DaysInMonth(y, m)
    IN  Ymd(y, m, IF Day(s) > last THEN last ELSE Day(s))

\* one period of a frequency after the day s
PlusPeriod(s, frequency) ==
    CASE frequency = "weekly" -> PlusDays(s, 7)
      [] frequency = "monthly" -> PlusMonths(s, 1)
      [] frequency = "quarterly" -> PlusMonths(s, 3)
      [] frequency = "yearly" -> PlusMonths(s, 12)

\* due = nextDue ?? startDate, as a day
DueDay(recurring) ==
    IF recurring.nextDue # NoDate THEN recurring.nextDue ELSE recurring.startDate

Suffix(tx) == tx.description[Len(tx.description)]

IsAuto(tx) == tx.isRecurring /\ Suffix(tx) = "(Auto)"
IsManual(tx) == tx.isRecurring /\ Suffix(tx) = "(Manual)"

\* old is the tail of new: new only has records added in front of old
IsTailOf(old, new) ==
    /\ Len(new) >= Len(old)
    /\ SubSeq(new, Len(new) - Len(old) + 1, Len(new)) = old

PassStep == ProcessEffect \/ IntervalTick

----------------------------------------------------------------------------
(* Properties *)

\* C1: a scheduler pass that re-runs because the pass before it updated the
\* template list (no wall-clock advance, no user action in between) emits no
\* further Transaction: one emission per due template, for every frequency and
\* however overdue the template is.
C1_RerunEmitsNothing ==
    [][(effect = "pass" /\ ProcessEffect) => onAddCalls' = <<>>]_vars

\* C2: after a scheduled emission the template's nextDue is its previous due
\* advanced by exactly one period of its frequency (weekly +7 days, monthly +1,
\* quarterly +3, yearly +12 calendar months) and is strictly later than it.
C2_AdvancesOnePeriod ==
    [][PassStep =>
        \A k \in DOMAIN onAddCalls' :
          \A i \in DOMAIN recurringTransactions :
            recurringTransactions[i].id = onAddCalls'[k].recurringId =>
              /\ recurringTransactions'[i].nextDue =
                    PlusPeriod(DueDay(recurringTransactions[i]),
                               recurringTransactions[i].frequency)
              /\ recurringTransactions'[i].nextDue > DueDay(recurringTransactions[i])
      ]_vars

\* what a scheduled pass on the day `day` is to emit for the template list
RECURSIVE ExpectedAutoFrom(_, _, _)
ExpectedAutoFrom(rts, day, i) ==
    IF i > Len(rts) THEN <<>>
    ELSE (IF rts[i].isActive /\ day >= DueDay(rts[i])
          THEN << [id |-> NoId,
                   type |-> rts[i].type,
                   description |-> Append(rts[i].description, "(Auto)"),
                   amount |-> rts[i].amount,
                   category |-> rts[i].category,
                   date |-> day,
                   isRecurring |-> TRUE,
                   recurringId |-> rts[i].id] >>
          ELSE <<>>)
         \o ExpectedAutoFrom(rts, day, i + 1)

\* C3: in a scheduled pass a template emits iff it is active and today's
\* calendar day is on or after its due day (nextDue, else startDate); the
\* emitted Transaction carries '(Auto)', the template's amount, type and
\* category, today's date, isRecurring and the template's id.
C3_EmitsIffActiveAndDue ==
    [][PassStep => onAddCalls' = ExpectedAutoFrom(recurringTransactions, now, 1)]_vars

\* a pass has emitted for a template on the very day it was due
C3_Witness ==
    /\ effect = "pass"
    /\ \E k \in DOMAIN onAddCalls :
         /\ IsAuto(onAddCalls[k])
         /\ onAddCalls[k].date = now
         /\ \E i \in DOMAIN recurringTransactions :
              /\ recurringTransactions[i].id = onAddCalls[k].recurringId
              /\ recurringTransactions[i].lastProcessed = now
              /\ recurringTransactions[i].startDate = now

\* C4: nextDue and lastProcessed of a template advance only once the emitted
\* Transaction is committed to the Entry Store: a step that advances them adds
\* that Transaction to the in-memory list.
C4_AdvanceOnlyAfterCommit ==
    [][\A k \in DOMAIN onAddCalls' :
         \A i \in DOMAIN recurringTransactions :
           ( /\ recurringTransactions[i].id = onAddCalls'[k].recurringId
             /\ recurringTransactions'[i] # recurringTransactions[i] )
           => \E j \in 1..(Len(transactions') - Len(transactions)) :
                /\ transactions'[j].recurringId = recurringTransactions[i].id
                /\ transactions'[j].isRecurring
      ]_vars

\* C5: no Transaction, Auto or Manual, is created for a template that is paused
\* when the step runs.
C5_PausedNeverEmits ==
    [][\A k \in DOMAIN onAddCalls' :
         \E i \in DOMAIN recurringTransactions :
           /\ recurringTransactions[i].id = onAddCalls'[k].recurringId
           /\ recurringTransactions[i].isActive
      ]_vars

\* the scheduler has run on a paused template more than a month overdue
C5_Witness ==
    /\ Mounted /\ Quiet
    /\ onAddCalls = <<>>
    /\ \E i \in DOMAIN recurringTransactions :
         /\ ~recurringTransactions[i].isActive
         /\ PlusMonths(DueDay(recurringTransactions[i]), 1) < now

\* a request the scheduler caused: the save of an emitted Transaction
FromScheduler(req) == req.op # "delete" /\ req.data.isRecurring

\* C6: an emission, scheduled or manual, only appends to the Entry Store: the
\* step that writes it leaves every Transaction that was stored in place,
\* also while a Transaction edit is in progress.
C6_EmissionOnlyAppends ==
    [][( \/ onAddCalls' # <<>>
         \/ \E req \in BagToSet(inflight), outcome \in Outcomes :
              FromScheduler(req) /\ ApiRespond(req, outcome) )
       => IsTailOf(transactions, transactions')]_vars

\* C7: nextDue of a template, when present, is on or after its startDate.
C7_NextDueNotBeforeStart ==
    \A i \in DOMAIN recurringTransactions :
        recurringTransactions[i].nextDue # NoDate =>
            recurringTransactions[i].nextDue >= recurringTransactions[i].startDate

\* C8: processNow is the scheduled step for one template: it emits one
\* '(Manual)' Transaction dated today for it, sets lastProcessed to today,
\* advances nextDue by one period from the template's previous due, and
\* leaves every other template as it was.
C8_ProcessNowIsTheScheduledStep ==
    [][\A n \in 1..MaxTemplates :
         (\E today \in Dates : processNow(n, today)) =>
            /\ Len(onAddCalls') = 1
            /\ IsManual(onAddCalls'[1])
            /\ onAddCalls'[1].date = now
            /\ onAddCalls'[1].recurringId = recurringTransactions[n].id
            /\ recurringTransactions'[n].lastProcessed = now
            /\ recurringTransactions'[n].nextDue =
                  PlusPeriod(DueDay(recurringTransactions[n]),
                             recurringTransactions[n].frequency)
            /\ \A i \in DOMAIN recurringTransactions :
                  i # n => recurringTransactions'[i] = recurringTransactions[i]
      ]_vars

\* C9: when the collaborator rejects a create, update or delete, or answers it
\* without success, the in-memory list is what it was and an error is shown.
C9_FailedWriteSurfaces ==
    [][\A req \in BagToSet(inflight) :
         (ApiRespond(req, "reject") \/ ApiRespond(req, "nosuccess")) =>
            /\ transactions' = transactions
            /\ alerted' # ""
      ]_vars

Stored(id) == \E j \in DOMAIN transactions : transactions[j].id = id

\* C10: an update or a delete of an id that is not in the Entry Store fails
\* with an error shown to the user and leaves the list, contents and order, as
\* it was.
C10_AbsentIdFails ==
    [][( \/ /\ backend = "local"
            /\ editingTransaction # <<>>
            /\ ~Stored(editingTransaction[1].id)
            /\ \E data \in FormEntries : handleSaveTransaction(data)
         \/ \E req \in BagToSet(inflight) :
              /\ req.op \in {"update", "delete"}
              /\ ~Stored(req.id)
              /\ ApiRespond(req, "reject") )
       => /\ transactions' = transactions
          /\ alerted' # ""]_vars

\* the list after the step is the list before it with one record in front:
\* the submitted data under an id the store assigned
StoredAs(data) ==
    /\ Len(transactions') = Len(transactions) + 1
    /\ Tail(transactions') = transactions
    /\ Head(transactions').id # NoId
    /\ Head(transactions') = [data EXCEPT !.id = Head(transactions').id]

\* C11: a successful create puts exactly one new record in the Entry Store,
\* under an id the store assigned and with every submitted field (the type in
\* the form's own spelling, "income" or "expense") as submitted; the records
\* stored before are unchanged.
C11_CreateRoundTrip ==
    [][ /\ \A data \in FormEntries :
              ( /\ backend = "local"
                /\ editingTransaction = <<>>
                /\ handleSaveTransaction(data) ) => StoredAs(data)
        /\ \A req \in BagToSet(inflight) :
              (req.op = "create" /\ ApiRespond(req, "success")) =>
                  \E type \in {"income", "expense"} :
                      /\ Upper(type) = req.data.type
                      /\ StoredAs([req.data EXCEPT !.type = type]) ]_vars

\* C12: on every creation path, the transaction form and the emission from a
\* template, no Transaction with an amount that is not above 0 or with an empty
\* category, description or date is ever in the Entry Store.
C12_NoInvalidEntryStored ==
    \A i \in DOMAIN transactions :
        /\ transactions[i].amount > 0
        /\ transactions[i].category # ""
        /\ transactions[i].description # <<>>
        /\ transactions[i].date # NoDate

\* C13: lastProcessed of a template changes only in a step that emits for
\* that template: creating, editing, pausing or resuming leaves it as it was,
\* and a template enters the saved collection with lastProcessed unset.
C13_LastProcessedOnlyByEmission ==
    [][\A i \in DOMAIN stored' :
          IF \E j \in DOMAIN stored : stored[j].id = stored'[i].id
          THEN \A j \in DOMAIN stored :
                  ( /\ stored[j].id = stored'[i].id
                    /\ stored[j].lastProcessed # stored'[i].lastProcessed )
                  => \E k \in DOMAIN onAddCalls' :
                        onAddCalls'[k].recurringId = stored'[i].id
          ELSE stored'[i].lastProcessed = NoDate]_vars

\* the saved template is active and due on the day
DueOn(recurring, day) == recurring.isActive /\ DueDay(recurring) <= day

\* C14: the application running, whichever tab is shown, the hourly tick at
\* which the clock shows a day emits, through a scheduled pass and with no user
\* action, for every saved active template that is due on that day.
C14_EmitsByNextTick ==
    [][HourPasses =>
          \A i \in DOMAIN stored :
              DueOn(stored[i], now') =>
                  \E k \in DOMAIN onAddCalls' :
                      /\ onAddCalls'[k].recurringId = stored[i].id
                      /\ IsAuto(onAddCalls'[k])]_vars

\* the day's number, counted from 0001-01-01 as day 1: a multiple of 7 is a Sunday
Ordinal(s) == DaysBeforeYear(Year(s)) + DaysBeforeMonth(Year(s), Month(s)) + Day(s)

SameIgnoringCase(a, b) == Lower(a) = Lower(b)

\* term is, letter case aside, a run of consecutive words of text
OccursIn(term, text) ==
    \E k \in 0..Len(text) :
        /\ k + Len(term) <= Len(text)
        /\ \A n \in 1..Len(term) : SameIgnoringCase(text[k + n], term[n])

\* the entry satisfies every active predicate of the filters on the day
Satisfies(t, f, day) ==
    /\ OccursIn(f.searchTerm, t.description) \/ OccursIn(f.searchTerm, Text(t.category))
    /\ f.filterType = "all" \/ t.type = f.filterType
    /\ f.filterCategory = "all" \/ t.category = f.filterCategory
    /\ CASE f.dateRange = "all" -> TRUE
         [] f.dateRange = "today" -> t.date = day
         [] f.dateRange = "week" -> Ordinal(t.date) \div 7 = Ordinal(day) \div 7
         [] f.dateRange = "month" ->
                Year(t.date) = Year(day) /\ Month(t.date) = Month(day)
         [] f.dateRange = "year" -> Year(t.date) = Year(day)

Range(seq) == {seq[i] : i \in DOMAIN seq}

\* C15: the filtered view holds exactly the stored entries that satisfy all
\* active predicates at once: the search text occurs, letter case aside, in
\* the description or in the category; the type and the category are the
\* selected ones ('all' filters nothing); the date is the evaluation day, or in
\* the calendar week (from Sunday), month or year that contains it.
C15_ViewIsConjunction ==
    \A today \in Dates :
        LET view == filteredTransactions(transactions, filters, today)
        IN  /\ Range(view) = {t \in Range(transactions) : Satisfies(t, filters, now)}
            /\ Len(view) = Cardinality(Range(view))

\* every filter is active, and the view keeps some entries and drops others
C15_Witness ==
    /\ activeTab = "reports"
    /\ filters.searchTerm # <<>> /\ filters.filterType # "all"
    /\ filters.filterCategory # "all" /\ filters.dateRange = "week"
    /\ \E t \in Range(transactions) : Satisfies(t, filters, now)
    /\ \E t \in Range(transactions) :
          /\ ~Satisfies(t, filters, now)
          /\ OccursIn(filters.searchTerm, t.description)
          /\ t.category = filters.filterCategory

\* the place of an entry in a list of distinct entries
IndexIn(seq, t) == CHOOSE i \in DOMAIN seq : seq[i] = t

\* C16: the filtered view is ordered by date, the later first, and entries of
\* one date are in the relative order they have in the Entry Store.
C16_ViewSortedStable ==
    \A today \in Dates :
        LET view == filteredTransactions(transactions, filters, today)
        IN  \A i, j \in DOMAIN view :
                i < j =>
                    /\ view[i].date >= view[j].date
                    /\ view[i].date = view[j].date =>
                          IndexIn(transactions, view[i]) < IndexIn(transactions, view[j])

\* the store is out of date order and the view has two entries of one date
C16_Witness ==
    /\ activeTab = "reports"
    /\ \E i, j \in DOMAIN transactions :
          i < j /\ transactions[i].date < transactions[j].date
    /\ \E today \in Dates :
          LET view == filteredTransactions(transactions, filters, today)
          IN  \E i, j \in DOMAIN view : i < j /\ view[i].date = view[j].date

\* the arithmetic total of amount over the entries of a type, whichever
\* spelling of the type the entry carries
RECURSIVE TotalOfType(_, _)
TotalOfType(txs, type) ==
    IF txs = <<>> THEN 0
    ELSE (IF Head(txs).type \in {type, Upper(type)} THEN Head(txs).amount ELSE 0)
         + TotalOfType(Tail(txs), type)

ExactTotals(totals, txs) ==
    /\ totals.income = TotalOfType(txs, "income")
    /\ totals.expense = TotalOfType(txs, "expense")
    /\ totals.balance = totals.income - totals.expense

\* C17: in every reachable state the totals given to the dashboard and the
\* filtered totals given to the reports have balance = income - expense, with
\* income and expense the sums of amount over the entries of that type in the
\* Entry Store, respectively in the filtered view; also after a write whose
\* dashboard refresh failed.
C17_TotalsMatchStore ==
    /\ ExactTotals(overallTotals(dashboardData, transactions), transactions)
    /\ \A today \in Dates :
         LET view == filteredTransactions(transactions, filters, today)
         IN  ExactTotals(filteredTotals(transactions, filters, today), view)

\* the templates the upcoming list is taken from
Eligible == { t \in Range(recurringTransactions) : t.isActive /\ t.nextDue # NoDate }

\* C18: the upcoming list holds only active templates that have a nextDue,
\* sorted by nextDue ascending and cut at the limit of 5: no paused template
\* is in it, and no active template with an earlier nextDue is left out while
\* one with a later nextDue is in.
C18_UpcomingIsEarliestActive ==
    LET upcoming == upcomingTransactions(recurringTransactions)
    IN  /\ Range(upcoming) \subseteq Eligible
        /\ Len(upcoming) = Cardinality(Range(upcoming))
        /\ Len(upcoming) = IF Cardinality(Eligible) < 5
                           THEN Cardinality(Eligible) ELSE 5
        /\ \A i, j \in DOMAIN upcoming :
              i < j => upcoming[i].nextDue <= upcoming[j].nextDue
        /\ \A t \in Eligible \ Range(upcoming), u \in Range(upcoming) :
              u.nextDue <= t.nextDue

C18_Witness ==
    /\ Cardinality(Eligible) > 5
    /\ \E t \in Range(recurringTransactions) : ~t.isActive
    /\ \E i, j \in DOMAIN recurringTransactions :
          /\ i < j
          /\ recurringTransactions[i].isActive /\ recurringTransactions[j].isActive
          /\ recurringTransactions[i].nextDue > recurringTransactions[j].nextDue
    /\ \E t \in Eligible \ Range(upcomingTransactions(recurringTransactions)) :
          t.nextDue = 20240301

\* C19: with the wall clock fixed, the chain of scheduler passes (each pass
\* saves the template list, which runs the pass again) comes, after finitely
\* many passes, to a list of which no active template is due, so that nothing
\* more is emitted; for every frequency, weekly included.
C19_ChainQuiesces ==
    \A today \in Dates :
        \E k \in 0..MaxPasses :
            PassCalls(PassChain(recurringTransactions, today, k), today) = <<>>

\* the number of Transactions the last pass emitted for the template
EmittedFor(recurring, calls) ==
    Cardinality({k \in DOMAIN calls : calls[k].recurringId = recurring.id})

\* C20: within one scheduler pass each template emits at most one
\* Transaction, however many periods have gone by since its due day, and a
\* template that is not due or not active emits none and is left as it was.
C20_OnePerTemplatePerPass ==
    [][PassStep =>
        \A i \in DOMAIN recurringTransactions :
            LET recurring == recurringTransactions[i]
            IN  /\ EmittedFor(recurring, onAddCalls') <= 1
                /\ ~DueOn(recurring, now) =>
                      /\ EmittedFor(recurring, onAddCalls') = 0
                      /\ recurringTransactions'[i] = recurring
                      /\ Len(recurringTransactions') = Len(recurringTransactions)
      ]_vars

C20_Witness ==
    /\ Len(onAddCalls) = 1
    /\ Len(recurringTransactions) = 2
    /\ \E i, j \in DOMAIN recurringTransactions :
          /\ recurringTransactions[i].id = onAddCalls[1].recurringId
          /\ recurringTransactions[i].frequency = "monthly"
          /\ recurringTransactions[i].lastProcessed = now
          /\ recurringTransactions[i].nextDue < now
          /\ recurringTransactions[j].lastProcessed = NoDate
          /\ recurringTransactions[j].isActive
          /\ recurringTransactions[j].nextDue > now

\* C21: Transaction ids are unique in the Entry Store in every reachable
\* state, also when several Transactions are added at one clock reading (one
\* pass emitting for two due templates, in the local-storage store), so that
\* an update or a delete by id touches at most one record.
C21_IdsUnique ==
    \A i, j \in DOMAIN transactions :
        i # j => transactions[i].id # transactions[j].id

\* C22: computing the filtered view leaves the Entry Store as it was, order and
\* contents, for every combination of filter settings, the one with no filter
\* active included: a change of the filter settings alone changes nothing in
\* the stored list, nor in its first five records.
C22_ViewLeavesStoreAlone ==
    [][filters' # filters =>
          /\ transactions' = transactions
          /\ slice(transactions', RecentCount) = slice(transactions, RecentCount)
      ]_vars

\* C23: the nextDue of an existing template never moves to an earlier day,
\* whatever the operation (scheduled emission, processNow, edit, pause or
\* resume); saving an edit of a template that has emitted for the current
\* period does not make it due again on the same day.
C23_NextDueNeverEarlier ==
    [][\A i \in DOMAIN stored, j \in DOMAIN stored' :
          stored'[j].id = stored[i].id => stored'[j].nextDue >= stored[i].nextDue
      ]_vars

Buckets == 0..(SeriesMonths - 1)

\* the intervals of a series do not overlap, a Transaction of the list lies in
\* at most one of them, and the buckets do not add up to more than the list
BucketsDisjoint(Interval(_, _), series, txs, today) ==
    /\ \A i, j \in Buckets :
          i < j => Earlier(Interval(today, j).end, Interval(today, i).start)
    /\ \A k \in DOMAIN txs :
          Cardinality({i \in Buckets :
                          isWithinInterval(parseISO(txs[k].date),
                                           Interval(today, i).start,
                                           Interval(today, i).end)}) <= 1
    /\ series[1].income + series[2].income + series[3].income
         + series[4].income + series[5].income + series[6].income
            <= TotalOfType(txs, "income")
    /\ series[1].expense + series[2].expense + series[3].expense
         + series[4].expense + series[5].expense + series[6].expense
            <= TotalOfType(txs, "expense")

\* C24: in the dashboard's 6-month trend and in the reports' 6-month
\* comparison the bucket intervals are pairwise non-overlapping: each
\* Transaction is counted in at most one bucket and the bucket totals never
\* add up to more than the total of the entries.
C24_BucketsDoNotOverlap ==
    \A today \in Dates :
        /\ BucketsDisjoint(TrendInterval, monthlyTrendData(transactions, today),
                           transactions, today)
        /\ LET view == filteredTransactions(transactions, filters, today)
           IN  BucketsDisjoint(ComparisonInterval,
                               monthlyComparisonData(view, today), view, today)

\* C25: at most one hourly scheduler timer is live per mounted
\* RecurringTransactions (each run of the effect cancels the timer of the run
\* before it), and once the component is unmounted no timer is live and no
\* pass runs.
C25_NoTimerLeak ==
    /\ intervals <= 1
    /\ ~Mounted => intervals = 0 /\ onAddCalls = <<>> /\ effect = "idle"

C25_Witness ==
    /\ ~Mounted
    /\ \E i \in DOMAIN stored : stored[i].lastProcessed # NoDate
    /\ \E i \in DOMAIN stored : DueOn(stored[i], now)

\* C26: with two tabs that loaded the same saved templates and run their
\* passes independently, both can emit for the same template and the same due
\* date: a tab's pass emits for every active template that is due in the list
\* the tab loaded, also when the other tab has emitted for it and saved.
C26_TabsEmitIndependently ==
    [][(\E today \in Dates : OtherTabPass(today)) =>
          \A j \in DOMAIN otherTab.recurringTransactions :
              DueOn(otherTab.recurringTransactions[j], now) =>
                  \E k \in 1..(Len(otherTab'.emitted) - Len(otherTab.emitted)) :
                      /\ otherTab'.emitted[k].recurringId =
                            otherTab.recurringTransactions[j].id
                      /\ IsAuto(otherTab'.emitted[k])
                      /\ otherTab'.emitted[k].date = now
      ]_vars

\* both tabs have emitted for the same yearly template, each for its one due
\* date so far, the start day, and each has advanced it by a year
C26_Witness ==
    \E i \in DOMAIN recurringTransactions,
       j \in DOMAIN otherTab.recurringTransactions,
       k \in DOMAIN otherTab.emitted :
        /\ recurringTransactions[i].frequency = "yearly"
        /\ recurringTransactions[i].id = otherTab.recurringTransactions[j].id
        /\ recurringTransactions[i].nextDue =
              PlusMonths(recurringTransactions[i].startDate, 12)
        /\ otherTab.recurringTransactions[j].nextDue =
              recurringTransactions[i].nextDue
        /\ otherTab.emitted[k].recurringId = recurringTransactions[i].id
        /\ \/ \E t \in Range(transactions) :
                 t.recurringId = recurringTransactions[i].id /\ t.isRecurring
           \/ \E req \in BagToSet(inflight) :
                 req.op = "create"
                    /\ req.data.recurringId = recurringTransactions[i].id

\* the template's endDate is set and is before the day the clock shows
Ended(recurring) == recurring.endDate # NoDate /\ recurring.endDate < now

\* C27: endDate is not enforced: an active template whose endDate is past
\* still emits when it is due in a scheduled pass, and still emits on
\* processNow; nothing reads endDate to hold an emission back.
C27_EndDateNotEnforced ==
    [][/\ PassStep =>
            \A i \in DOMAIN recurringTransactions :
                (Ended(recurringTransactions[i])
                    /\ DueOn(recurringTransactions[i], now)) =>
                    \E k \in DOMAIN onAddCalls' :
                        /\ onAddCalls'[k].recurringId = recurringTransactions[i].id
                        /\ IsAuto(onAddCalls'[k])
       /\ \A i \in DOMAIN recurringTransactions :
            (Ended(recurringTransactions[i])
                /\ \E today \in Dates : processNow(i, today)) =>
                /\ Len(onAddCalls') = 1
                /\ onAddCalls'[1].recurringId = recurringTransactions[i].id
                /\ IsManual(onAddCalls'[1])
      ]_vars

\* the local-storage store holds a scheduled and a manual Transaction of a
\* template whose endDate was past at both
C27_Witness ==
    \E i \in DOMAIN recurringTransactions, a, m \in DOMAIN transactions :
        /\ Ended(recurringTransactions[i])
        /\ recurringTransactions[i].endDate < transactions[a].date
        /\ recurringTransactions[i].endDate < transactions[m].date
        /\ transactions[a].recurringId = recurringTransactions[i].id
        /\ transactions[m].recurringId = recurringTransactions[i].id
        /\ IsAuto(transactions[a])
        /\ IsManual(transactions[m])

\* the list with the template at position i left out
Without(list, i) == SubSeq(list, 1, i - 1) \o SubSeq(list, i + 1, Len(list))

Defined(number) == number.isFinite /\ ~number.isNaN

\* C29: no derived figure handed to presentation comes out of a division by
\* zero: for every entry collection (empty, income only, expense only, with
\* entries of amount 0) the savings rate, the average expense, the income to
\* expense ratio and the per-category percentage shares are numbers, never NaN
\* or Infinity.
C29_NoDivisionByZero ==
    \A today \in Dates :
        LET report == ReportTransactions(
                          filteredTransactions(transactions, filters, today), today)
            totals == overallTotals(dashboardData, transactions)
        IN  /\ Defined(savings(report))
            /\ Defined(averageExpense(report))
            /\ Defined(incomeExpenseRatio(report))
            /\ \A type \in {"income", "expense"} :
                 \A category \in CategoriesOf(transactions, type) :
                    Defined(categoryShare(transactions, totals, type, category))
            /\ \A category \in CategoriesOf(transactions, "expense") :
                 Defined(piePercentage(transactions, category))

\* the application shows the tracker
TrackerShown == ~auth.isLoading /\ auth.user # NoUser

\* C30: whenever the auth context holds a user and the tracker is shown, an
\* auth token is in storage; every event that removes the token while the
\* tracker is shown (logout, a failed token validation, a 401 handled by the
\* response interceptor) resets the user to null as well; and once auth
\* initialization has finished isLoading is false.
C30_SessionConsistent ==
    /\ [](TrackerShown => auth.token)
    /\ [](auth.initialized => ~auth.isLoading)
    /\ [][TrackerShown /\ auth.token /\ ~auth'.token => auth'.user = NoUser]_vars

====
